---- MODULE Spec2Model ----
(***************************************************************************)
(* A model of the Spotdl repository:                                       *)
(*   src/fabdl_downloader.py  FabDLClient (poller) and its sanitiser       *)
(*   src/main.py              the FastAPI service (track resolution)       *)
(*   src/spotify_dl_v3.py     the Downloaderize command line flow          *)
(*                                                                         *)
(* Encoding of Python values.  An optional value (None, or a key absent    *)
(* from a dict read with .get) is the empty tuple <<>>; a present value x  *)
(* is the one-element tuple <<x>>.  A str that the code inspects character *)
(* by character is a sequence of one-character strings.                    *)
(***************************************************************************)
EXTENDS Integers, Sequences, FiniteSets, TLC

VARIABLES fab,   \* call frame of FabDLClient.poll_progress
          svc,   \* one inbound request of the service (main.py)
          cli,   \* call frame of spotify_dl_v3.main
          fn,    \* one application of a sanitize_filename function
          conc   \* the service's concurrent requests and its session objects

vars == <<fab, svc, cli, fn, conc>>

None == <<>>
Some(x) == <<x>>
IsNone(o) == o = <<>>
Val(o) == o[1]

Max(a, b) == IF a >= b THEN a ELSE b

(***************************************************************************)
(* Bounds of the model.                                                    *)
(***************************************************************************)
MaxTimeout == 3
MaxInterval == 2
MaxLatency == 2

\* component frames that do not take part in a specification
Idle == [pc |-> "idle"]

(***************************************************************************)
(* FabDLClient.poll_progress  (src/fabdl_downloader.py)                    *)
(***************************************************************************)

\* the bodies of "result" a progress response can carry
ProgressResults ==
    [status : {None, Some(1), Some(3)},
     download_url : {None, Some(""), Some("u")}]

NoResult == [status |-> None, download_url |-> None]

\* what one GET of the progress endpoint can come back with:
\*   neterr   session.get raises (connection error, timeout)
\*   httperr  a non-OK status: raise_for_status raises
\*   nonjson  response.json() raises
\*   noresult a JSON object without the key "result"
\*   ok       a JSON object whose "result" is the given body
ProgressResponses ==
    [kind : {"ok"}, result : ProgressResults]
    \cup [kind : {"neterr", "httperr", "nonjson", "noresult"}, result : {NoResult}]

\* _get_json: the exception it raises, or the "result" it returns
GetJson(r) ==
    CASE r.kind = "neterr" -> [raised |-> TRUE, exc |-> "RequestException", result |-> NoResult]
      [] r.kind = "httperr" -> [raised |-> TRUE, exc |-> "HTTPError", result |-> NoResult]
      [] r.kind = "nonjson" -> [raised |-> TRUE, exc |-> "JSONDecodeError", result |-> NoResult]
      [] r.kind = "noresult" -> [raised |-> TRUE, exc |-> "ValueError", result |-> NoResult]
      [] OTHER -> [raised |-> FALSE, exc |-> "", result |-> r.result]

\* Python truth of an optional str
TruthyStr(o) == ~IsNone(o) /\ Val(o) # ""

\* status == 3 and download_url
TerminalSuccess(result) ==
    result.status = Some(3) /\ TruthyStr(result.download_url)

\* a deadline test placed before the success test
PollDecisionDeadlineFirst(result, t, deadline) ==
    IF t >= deadline THEN "timeout"
    ELSE IF TerminalSuccess(result) THEN "return"
    ELSE "sleep"

\* a deadline that hands back the last result instead of raising
PollDecisionNoRaise(result, t, deadline) ==
    IF TerminalSuccess(result) THEN "return"
    ELSE IF t >= deadline THEN "return"
    ELSE "sleep"

\* the two tests of one loop iteration, in the code's order
PollDecision(result, t, deadline) ==
    IF TerminalSuccess(result) THEN "return"
    ELSE IF t >= deadline THEN "timeout"
    ELSE "sleep"

\* the state at the call: interval is a duration (time.sleep accepts no
\* negative one), timeout may be negative, i.e. already elapsed
FabInit ==
    /\ fab \in [pc : {"call"}, interval : 0..MaxInterval, timeout : (-1)..MaxTimeout,
                now : {0}, deadline : {0}, polls : {0}, sleeps : {0},
                outcome : {"none"}, exc : {""}, ret : {None},
                first : {None}, pendingOnly : {TRUE}]
    /\ svc = Idle
    /\ cli = Idle
    /\ fn = Idle
    /\ conc = Idle

\* deadline = time.time() + timeout
PollEnter ==
    /\ fab.pc = "call"
    /\ fab' = [fab EXCEPT !.pc = "get", !.deadline = fab.now + fab.timeout]
    /\ UNCHANGED <<svc, cli, fn, conc>>

\* one iteration of the loop up to the sleep: the request, then the success
\* and deadline tests.  The clock counts in units of the shortest round
\* trip, so a request takes d >= 1 ticks of time.time().
PollIteration ==
    /\ fab.pc = "get"
    /\ \E r \in ProgressResponses, d \in 1..MaxLatency :
         LET g == GetJson(r)
             t == fab.now + d
             dec == PollDecision(g.result, t, fab.deadline)
             seen == [fab EXCEPT !.now = t, !.polls = fab.polls + 1,
                                 !.first = IF fab.polls = 0 THEN Some(r) ELSE fab.first,
                                 !.pendingOnly = fab.pendingOnly /\ ~g.raised
                                                 /\ ~TerminalSuccess(g.result)]
         IN fab' = IF g.raised
                     THEN [seen EXCEPT !.pc = "done", !.outcome = "raised", !.exc = g.exc]
                   ELSE IF dec = "return"
                     THEN [seen EXCEPT !.pc = "done", !.outcome = "returned",
                                       !.ret = Some(g.result)]
                   ELSE IF dec = "timeout"
                     THEN [seen EXCEPT !.pc = "done", !.outcome = "raised",
                                       !.exc = "TimeoutError"]
                   ELSE [seen EXCEPT !.pc = "sleep"]
    /\ UNCHANGED <<svc, cli, fn, conc>>

\* time.sleep(interval)
PollSleep ==
    /\ fab.pc = "sleep"
    /\ fab' = [fab EXCEPT !.pc = "get", !.now = fab.now + fab.interval,
                          !.sleeps = fab.sleeps + 1]
    /\ UNCHANGED <<svc, cli, fn, conc>>

FabNext == PollEnter \/ PollIteration \/ PollSleep

SpecFab == FabInit /\ [][FabNext]_vars

\* the loop is the only thread of the call: it always takes its next step
FairSpecFab == FabInit /\ [][FabNext]_vars /\ WF_vars(FabNext)

(***************************************************************************)
(* Claims about the poller                                                 *)
(***************************************************************************)

FirstIsTerminalSuccess ==
    /\ ~IsNone(fab.first)
    /\ Val(fab.first).kind = "ok"
    /\ TerminalSuccess(Val(fab.first).result)

\* C1: when the first status response is a terminal success (status 3 and a
\* non-empty download_url), poll_progress has returned that response's
\* result after exactly one request and no sleep, for every interval and
\* every timeout, an already elapsed one included.
C1_ReturnsOnFirstSuccess ==
    FirstIsTerminalSuccess =>
        /\ fab.pc = "done"
        /\ fab.outcome = "returned"
        /\ fab.ret = Some(Val(fab.first).result)
        /\ fab.polls = 1
        /\ fab.sleeps = 0

C1_Witness ==
    /\ FirstIsTerminalSuccess
    /\ fab.outcome = "returned"
    /\ fab.timeout < 0
    /\ fab.now >= fab.deadline

\* C2: when every status response is non-terminal the call never returns a
\* result, makes a bounded number of polls, and ends by raising the timeout
\* error, which happens only once the deadline has passed.
C2_PendingEndsInTimeout ==
    /\ [](fab.pendingOnly =>
            /\ fab.outcome # "returned"
            /\ fab.ret = None
            /\ fab.polls <= Max(1, fab.timeout)
            /\ (fab.pc = "done" =>
                  /\ fab.outcome = "raised"
                  /\ fab.exc = "TimeoutError"
                  /\ fab.now >= fab.deadline))
    /\ <>(fab.pc = "done")

C2_Witness ==
    /\ fab.pendingOnly
    /\ fab.pc = "done"
    /\ fab.exc = "TimeoutError"
    /\ fab.polls >= 2
    /\ fab.sleeps >= 1

\* C3: a failed poll (network error, non-OK status, non-JSON body, body
\* without the expected structure) is swallowed: it does not end the polling
\* and does not reach the caller.
C3_PollFailureSwallowed ==
    fab.pc = "done" =>
        \/ fab.outcome = "returned"
        \/ fab.outcome = "raised" /\ fab.exc = "TimeoutError"


(***************************************************************************)
(* The service  (src/main.py)                                              *)
(***************************************************************************)

\* default of poll_conversion_task's max_attempts
DefaultMaxAttempts == 40

\* a URL is a sequence of segments; "marker in url" is the presence of the
\* segment
Contains(url, marker) == \E i \in 1..Len(url) : url[i] = marker

SPOTIFY_TRACK == "open.spotify.com/track/"

\* the values of the query parameter url (None: no parameter)
RequestUrls ==
    {None,
     Some(<<>>),
     Some(<<"invalid">>),
     Some(<<"https://", "open.spotify.com/album/", "9">>),
     Some(<<"https://", SPOTIFY_TRACK, "4cOdK2wGLETKBW3PvgPWqT">>)}

\* the images list of an album object, the artists list of a track
ImageLists == {None, Some(<<>>), Some(<<[url |-> Some("U")]>>)}
ArtistLists == {None, Some(<<>>), Some(<<[name |-> Some("A")]>>), Some(<<[name |-> None]>>)}
Albums == {None} \cup {Some([images |-> i]) : i \in ImageLists}

\* the object nested under "data" in the shape of spec section 8
NestedTracks ==
    [title : {Some("T")}, artists : {Some(<<[name |-> Some("A")]>>)},
     album : {Some([images |-> Some(<<[url |-> Some("U")]>>)])}]

\* JSON objects answered by POST /getTrackData
TrackPayloads ==
    [type : {None, Some("track"), Some("album")},
     name : {None, Some(""), Some("N")},
     title : {None, Some("T")},
     artists : ArtistLists,
     album : Albums,
     data : {None} \cup {Some(n) : n \in NestedTracks}]

\* the objects under "data" and "data.result" of a convert or task payload
UrlHolders == [url : {None, Some("m3")}]
DataObjects ==
    [url : {None, Some("m2")}, result : {None} \cup {Some(h) : h \in UrlHolders}]

\* JSON objects answered by POST /convert
ConvertPayloads ==
    [error : {None, Some(FALSE), Some(TRUE)},
     url : {None, Some(""), Some("m1")},
     data : {None} \cup {Some(d) : d \in DataObjects},
     task_id : {None, Some("t1")},
     taskId : {None, Some(""), Some("t2")}]

\* JSON objects answered by GET /tasks/<id>
TaskPayloads ==
    [error : {None, Some(FALSE), Some(TRUE)},
     url : {None, Some(""), Some("m1")},
     data : {None} \cup {Some(d) : d \in DataObjects},
     status : {None, Some("pending"), Some("done")}]

\* the empty dict {} that poll_conversion_task returns when it gives up
EmptyPayload == [error |-> None, url |-> None, data |-> None, status |-> None]

\* parse_track_data: an HTTPException, or the three fields
ParseTrackData(payload) ==
    IF payload.type # Some("track")
    THEN [raised |-> TRUE, status |-> 400,
          detail |-> "Only Spotify track URLs are supported",
          title |-> None, artist |-> None, thumbnail |-> None]
    ELSE LET artists == IF IsNone(payload.artists) THEN <<>> ELSE Val(payload.artists)
             album == payload.album
             images == IF IsNone(album) \/ IsNone(Val(album).images)
                       THEN <<>> ELSE Val(Val(album).images)
         IN [raised |-> FALSE, status |-> 200, detail |-> "",
             title |-> IF TruthyStr(payload.name) THEN payload.name
                       ELSE Some("Unknown Title"),
             artist |-> IF artists # <<>> THEN artists[1].name
                        ELSE Some("Unknown Artist"),
             thumbnail |-> IF images # <<>> THEN images[1].url ELSE None]

\* extract_download_url
ExtractDownloadUrl(payload) ==
    IF payload.error = Some(FALSE) /\ TruthyStr(payload.url) THEN payload.url
    ELSE LET info == IF IsNone(payload.data) THEN [url |-> None, result |-> None]
                     ELSE Val(payload.data)
         IN IF TruthyStr(info.url) THEN info.url
            ELSE IF ~IsNone(info.result) /\ TruthyStr(Val(info.result).url)
            THEN Val(info.result).url
            ELSE None

\* convert_payload.get("task_id") or convert_payload.get("taskId")
TaskIdOf(payload) ==
    IF TruthyStr(payload.task_id) THEN payload.task_id ELSE payload.taskId

NoRecord == [title |-> None, artist |-> None, thumbnail |-> None, media_url |-> None]

\* results of get_track_data_internal
Returned(rec) == [kind |-> "return", status |-> 200, detail |-> "", rec |-> rec]
HttpExc(status, detail) ==
    [kind |-> "HTTPException", status |-> status, detail |-> detail, rec |-> NoRecord]
OtherExc(name) == [kind |-> "Exception", status |-> 0, detail |-> name, rec |-> NoRecord]

\* the gate of lines 133-141 with the test of media_url left out
GateAlwaysReturns(track_data, media_url) ==
    Returned([title |-> track_data.title, artist |-> track_data.artist,
              thumbnail |-> track_data.thumbnail, media_url |-> media_url])

\* lines 133-141: 404 unless media_url is truthy
Gate(track_data, media_url) ==
    IF ~TruthyStr(media_url)
    THEN HttpExc(404, "No media found for this track")
    ELSE Returned([title |-> track_data.title, artist |-> track_data.artist,
                   thumbnail |-> track_data.thumbnail, media_url |-> media_url])

\* response_model=TrackInfo: title, artist and media_url must be str
ValidTrackInfo(rec) ==
    ~IsNone(rec.title) /\ ~IsNone(rec.artist) /\ ~IsNone(rec.media_url)

\* read_root that lets an HTTPException through to the framework
ReadRootResponsePropagates(res) ==
    IF res.kind = "return"
    THEN [status |-> 200, kind |-> "player", detail |-> "", rec |-> res.rec]
    ELSE IF res.kind = "HTTPException"
    THEN [status |-> res.status, kind |-> "json_error", detail |-> res.detail,
          rec |-> NoRecord]
    ELSE [status |-> 200, kind |-> "error_html", detail |-> res.detail, rec |-> NoRecord]

\* read_root around get_track_data_internal: always an HTML body, status 200
ReadRootResponse(res) ==
    IF res.kind = "return"
    THEN [status |-> 200, kind |-> "player", detail |-> "", rec |-> res.rec]
    ELSE [status |-> 200, kind |-> "error_html", detail |-> res.detail, rec |-> NoRecord]

\* get_track_info: the record, the HTTPException's status and detail, or an
\* exception left to the framework
GetTrackInfoResponse(res) ==
    IF res.kind = "return"
    THEN IF ValidTrackInfo(res.rec)
         THEN [status |-> 200, kind |-> "json", detail |-> "", rec |-> res.rec]
         ELSE [status |-> 500, kind |-> "unhandled",
               detail |-> "ResponseValidationError", rec |-> NoRecord]
    ELSE IF res.kind = "HTTPException"
    THEN [status |-> res.status, kind |-> "json_error", detail |-> res.detail,
          rec |-> NoRecord]
    ELSE [status |-> 500, kind |-> "unhandled", detail |-> res.detail, rec |-> NoRecord]

Respond(handler, res) ==
    IF handler = "read_root" THEN ReadRootResponse(res) ELSE GetTrackInfoResponse(res)

NoResponse == [status |-> 0, kind |-> "none", detail |-> "", rec |-> NoRecord]
NoTrackData == [title |-> None, artist |-> None, thumbnail |-> None]

\* the frame s after get_track_data_internal ended with res
Finish(s, res) ==
    [s EXCEPT !.pc = "done", !.result = res, !.resp = Respond(s.handler, res)]

\* the X-CSRF-TOKEN header of a request: post_json sends the token, the two
\* GETs send none
TokenSent(s, op) ==
    IF op \in {"POST getTrackData", "POST convert"} THEN s.csrf_token ELSE None

\* a log in which every request goes out on a session of its own
LoggedFreshSession(s, op) ==
    Append(s.log, [op |-> op, session |-> s.session + Len(s.log),
                   token |-> TokenSent(s, op)])

\* the requests made so far, each with the session it went out on
Logged(s, op) ==
    Append(s.log, [op |-> op, session |-> s.session, token |-> TokenSent(s, op)])

\* the frame of a request on entry to its route handler
InitialFrames(urls) ==
    { f \in [pc : {"recv"}, handler : {"read_root", "get_track_info"},
             url : urls, session : {0}, csrf_token : {None},
             track_data : {NoTrackData}, convert_media : {None},
             media_url : {None}, task_id : {None}, attempts : {0},
             pollEnd : {"none"}, taskStatus : {None},
             result : {[kind |-> "none", status |-> 0, detail |-> "", rec |-> NoRecord]},
             resp : {NoResponse}, log : {<<>>}] :
        ~(f.handler = "get_track_info" /\ IsNone(f.url)) }

SvcInit ==
    /\ svc \in InitialFrames(RequestUrls)
    /\ fab = Idle
    /\ cli = Idle
    /\ fn = Idle
    /\ conc = Idle

\* the CSRF token the upstream's home page carries for a session
CsrfTokenOf(session) == <<"csrf", session>>

\* read_root without a url: the form.  Otherwise get_track_data_internal up
\* to the creation of the session (lines 93-96); session is the identity of
\* the object requests.Session() returns.
ReceiveStep(s, session) ==
    IF s.handler = "read_root" /\ (IsNone(s.url) \/ Val(s.url) = <<>>)
    THEN [s EXCEPT !.pc = "done",
                   !.resp = [status |-> 200, kind |-> "form",
                             detail |-> "", rec |-> NoRecord]]
    ELSE IF ~Contains(Val(s.url), SPOTIFY_TRACK)
    THEN Finish(s, HttpExc(400, "Invalid Spotify URL"))
    ELSE [s EXCEPT !.pc = "csrf", !.session = session]

\* fetch_csrf_token and the handler of lines 98-101
FetchCsrfSteps(s0) ==
    LET s == [s0 EXCEPT !.log = Logged(s0, "GET home")]
    IN { IF r = "ok"
         THEN [s EXCEPT !.pc = "trackdata",
                        !.csrf_token = Some(CsrfTokenOf(s.session))]
         ELSE Finish(s, HttpExc(500, "Failed to fetch CSRF token"))
         : r \in {"neterr", "httperr", "notoken", "ok"} }

\* post_json(getTrackData) with its handler, then parse_track_data
\* (lines 103-114)
GetTrackDataSteps(s0, payloads) ==
    LET s == [s0 EXCEPT !.log = Logged(s0, "POST getTrackData")]
    IN  \* the request fails, or its body is not JSON
        {Finish(s, HttpExc(500, "Failed to fetch track info"))}
        \cup \* a JSON body that is not an object: payload.get raises
        {Finish(s, OtherExc("AttributeError"))}
        \cup
        { LET td == ParseTrackData(p)
          IN IF td.raised
             THEN Finish(s, HttpExc(td.status, td.detail))
             ELSE [s EXCEPT !.pc = "convert",
                            !.track_data = [title |-> td.title,
                                            artist |-> td.artist,
                                            thumbnail |-> td.thumbnail]]
          : p \in payloads }

\* post_json(convert) with its handler, extract_download_url, the task id,
\* and, when no poll is due, the gate (lines 116-141)
ConvertSteps(s0, payloads) ==
    LET s == [s0 EXCEPT !.log = Logged(s0, "POST convert")]
    IN  \* the request fails, or its body is not JSON
        {Finish(s, HttpExc(500, "Failed to start conversion"))}
        \cup \* a JSON body that is not an object: payload.get raises
        {Finish(s, OtherExc("AttributeError"))}
        \cup
        { LET media == ExtractDownloadUrl(p)
              task == TaskIdOf(p)
          IN IF ~TruthyStr(media) /\ TruthyStr(task)
             THEN [s EXCEPT !.pc = "poll", !.task_id = task,
                            !.convert_media = media, !.media_url = media]
             ELSE Finish([s EXCEPT !.task_id = task, !.convert_media = media,
                                   !.media_url = media],
                         Gate(s.track_data, media))
          : p \in payloads }

\* poll_conversion_task: one pass of the loop (sleep, GET, the two
\* "continue" tests, return payload), and after a return lines 131-141
PollAttemptSteps(s0, payloads) ==
    LET s == [s0 EXCEPT !.log = Logged(s0, "GET task"),
                        !.attempts = s0.attempts + 1]
    IN  \* session.get raises: nothing catches it
        {Finish([s EXCEPT !.pollEnd = "raised"], OtherExc("RequestException"))}
        \cup \* not resp.ok, or resp.json() raises ValueError: continue
        {s}
        \cup \* a JSON body that is not an object is returned; payload.get raises
        {Finish([s EXCEPT !.pollEnd = "payload"], OtherExc("AttributeError"))}
        \cup
        { LET media == ExtractDownloadUrl(p)
          IN Finish([s EXCEPT !.pollEnd = "payload", !.media_url = media,
                              !.taskStatus = p.status],
                    Gate(s.track_data, media))
          : p \in payloads }

\* poll_conversion_task: the loop ran out, return {}; then lines 131-141
PollExhaustedStep(s) ==
    LET media == ExtractDownloadUrl(EmptyPayload)
    IN Finish([s EXCEPT !.pollEnd = "exhausted", !.media_url = media],
              Gate(s.track_data, media))

SvcReceive ==
    /\ svc.pc = "recv"
    /\ svc' = ReceiveStep(svc, 1)
    /\ UNCHANGED <<fab, cli, fn, conc>>

SvcFetchCsrf ==
    /\ svc.pc = "csrf"
    /\ svc' \in FetchCsrfSteps(svc)
    /\ UNCHANGED <<fab, cli, fn, conc>>

SvcGetTrackData ==
    /\ svc.pc = "trackdata"
    /\ svc' \in GetTrackDataSteps(svc, TrackPayloads)
    /\ UNCHANGED <<fab, cli, fn, conc>>

SvcConvert ==
    /\ svc.pc = "convert"
    /\ svc' \in ConvertSteps(svc, ConvertPayloads)
    /\ UNCHANGED <<fab, cli, fn, conc>>

SvcPollAttempt ==
    /\ svc.pc = "poll"
    /\ svc.attempts < DefaultMaxAttempts
    /\ svc' \in PollAttemptSteps(svc, TaskPayloads)
    /\ UNCHANGED <<fab, cli, fn, conc>>

SvcPollExhausted ==
    /\ svc.pc = "poll"
    /\ svc.attempts >= DefaultMaxAttempts
    /\ svc' = PollExhaustedStep(svc)
    /\ UNCHANGED <<fab, cli, fn, conc>>

SvcNext ==
    \/ SvcReceive
    \/ SvcFetchCsrf
    \/ SvcGetTrackData
    \/ SvcConvert
    \/ SvcPollAttempt
    \/ SvcPollExhausted

SpecSvc == SvcInit /\ [][SvcNext]_vars

(***************************************************************************)
(* Claims about the service                                                *)
(***************************************************************************)

NoMediaOutcome ==
    /\ svc.result.kind = "HTTPException"
    /\ svc.result.status = 404
    /\ svc.result.detail = "No media found for this track"

PollingTimedOut ==
    /\ svc.pc = "done"
    /\ \/ svc.pollEnd = "exhausted"
       \/ svc.pollEnd = "payload" /\ svc.taskStatus = Some("pending")
    /\ ~TruthyStr(svc.media_url)

\* C4: when task polling ends without a download URL because the attempt
\* budget ran out or the job was still pending, the caller gets an outcome
\* other than the 404 "No media found for this track" of a track without
\* media.
C4_TimeoutDiffersFromNoMedia ==
    PollingTimedOut => ~NoMediaOutcome

\* C10: a record is returned only with a non-empty media_url, which is the
\* URL of the convert response or of the polled task payload; every other
\* resolution ends in an error without a record, and so does every 200 JSON
\* body of /info and every player page of /.
C10_RecordHasMediaUrl ==
    /\ svc.result.kind = "return" =>
         /\ TruthyStr(svc.result.rec.media_url)
         /\ svc.result.rec.media_url = svc.media_url
         /\ \/ svc.pollEnd = "none" /\ svc.media_url = svc.convert_media
            \/ svc.pollEnd = "payload" /\ ~TruthyStr(svc.convert_media)
    /\ svc.result.kind # "return" => svc.result.rec = NoRecord
    /\ svc.resp.kind \in {"json", "player"} =>
         /\ svc.result.kind = "return"
         /\ svc.resp.rec = svc.result.rec
         /\ TruthyStr(svc.resp.rec.media_url)
    /\ svc.resp.kind \notin {"json", "player"} => svc.resp.rec = NoRecord

C10_Witness ==
    /\ svc.result.kind = "return"
    /\ svc.pollEnd = "payload"
    /\ svc.attempts >= 2
    /\ svc.resp.kind = "json"


(***************************************************************************)
(* parse_track_data applied to one payload  (src/main.py)                  *)
(***************************************************************************)

ParseInit ==
    /\ fn \in [pc : {"call"}, name : {"parse_track_data"}, input : TrackPayloads,
               output : {ParseTrackData([type |-> None, name |-> None, title |-> None,
                                         artists |-> None, album |-> None,
                                         data |-> None])}]
    /\ fab = Idle
    /\ svc = Idle
    /\ cli = Idle
    /\ conc = Idle

ParseApply ==
    /\ fn.pc = "call"
    /\ fn.name = "parse_track_data"
    /\ fn' = [fn EXCEPT !.pc = "done", !.output = ParseTrackData(fn.input)]
    /\ UNCHANGED <<fab, svc, cli, conc>>

ParseNext == ParseApply

SpecParse == ParseInit /\ [][ParseNext]_vars

\* the payload {"data": {"title": "T", "artists": [{"name": "A"}],
\*              "album": {"images": [{"url": "U"}]}}}
NestedShape ==
    [type |-> None, name |-> None, title |-> None, artists |-> None, album |-> None,
     data |-> Some([title |-> Some("T"), artists |-> Some(<<[name |-> Some("A")]>>),
                    album |-> Some([images |-> Some(<<[url |-> Some("U")]>>)])])]

\* C9: from the nested payload {"data": {"title": "T", "artists":
\* [{"name": "A"}], "album": {"images": [{"url": "U"}]}}} parse_track_data
\* extracts title "T", artist "A" and thumbnail "U".
C9_NestedRoundTrip ==
    (fn.pc = "done" /\ fn.input = NestedShape) =>
        /\ ~fn.output.raised
        /\ fn.output.title = Some("T")
        /\ fn.output.artist = Some("A")
        /\ fn.output.thumbnail = Some("U")


(***************************************************************************)
(* Strings as sequences of characters                                      *)
(***************************************************************************)

ALPHA_UPPER == <<"A", "B", "C", "D", "E", "F", "G", "H", "I", "J", "K", "L", "M">>
               \o <<"N", "O", "P", "Q", "R", "S", "T", "U", "V", "W", "X", "Y", "Z">>
ALPHA_LOWER == <<"a", "b", "c", "d", "e", "f", "g", "h", "i", "j", "k", "l", "m">>
               \o <<"n", "o", "p", "q", "r", "s", "t", "u", "v", "w", "x", "y", "z">>
Upper == {ALPHA_UPPER[i] : i \in 1..26}
Letters == Upper \cup {ALPHA_LOWER[i] : i \in 1..26}
Digits == {"0", "1", "2", "3", "4", "5", "6", "7", "8", "9"}

\* str.lower, character by character
LowerChar(c) ==
    IF c \in Upper THEN ALPHA_LOWER[CHOOSE i \in 1..26 : ALPHA_UPPER[i] = c] ELSE c
Lower(str) == [i \in 1..Len(str) |-> LowerChar(str[i])]

\* str[i:].startswith(pre), positions counted from 1
StartsWithAt(str, i, pre) ==
    /\ i + Len(pre) - 1 <= Len(str)
    /\ \A k \in 1..Len(pre) : str[i + k - 1] = pre[k]

StartsWith(str, pre) == StartsWithAt(str, 1, pre)
EndsWith(str, suf) ==
    Len(suf) <= Len(str) /\ StartsWithAt(str, Len(str) - Len(suf) + 1, suf)

\* needle in str
InStr(needle, str) == \E i \in 1..(Len(str) + 1) : StartsWithAt(str, i, needle)

\* str.find(c) and str.rfind(c) counted from 1; 0 when c does not occur
Find(str, cs) ==
    IF \E i \in 1..Len(str) : str[i] \in cs
    THEN CHOOSE i \in 1..Len(str) : str[i] \in cs /\ \A k \in 1..(i - 1) : str[k] \notin cs
    ELSE 0
RFind(str, c) ==
    IF \E i \in 1..Len(str) : str[i] = c
    THEN CHOOSE i \in 1..Len(str) : str[i] = c /\ \A k \in (i + 1)..Len(str) : str[k] # c
    ELSE 0

(***************************************************************************)
(* choose_media  (src/spotify_dl_v3.py)                                    *)
(***************************************************************************)

MaxMedias == 3

\* the value under "url" of a media entry: a str, or something else
\* (absent, None, a number)
StrUrl(chars) == [isstr |-> TRUE, s |-> chars]
NonStrUrl == [isstr |-> FALSE, s |-> <<>>]

\* media URLs
URL_M4A == <<"/", "a", ".", "m", "4", "a">>
URL_MP3 == <<"/", "b", ".", "m", "p", "3">>
URL_MP3_UPPER == <<"/", "c", ".", "M", "P", "3", "?", "x">>
URL_PLAIN == <<"/", "d">>

\* an element of medias: a dict with its "url", or anything else
MediaEntries ==
    {[isdict |-> FALSE, url |-> NonStrUrl],
     [isdict |-> TRUE, url |-> NonStrUrl],
     [isdict |-> TRUE, url |-> StrUrl(<<>>)],
     [isdict |-> TRUE, url |-> StrUrl(URL_M4A)],
     [isdict |-> TRUE, url |-> StrUrl(URL_PLAIN)],
     [isdict |-> TRUE, url |-> StrUrl(URL_MP3)],
     [isdict |-> TRUE, url |-> StrUrl(URL_MP3_UPPER)]}

SeqsUpTo(S, n) == UNION {[1..k -> S] : k \in 0..n}

\* the value under "medias": absent or None, a list, or another truthy value
MediasValues(n) ==
    {[kind |-> "absent", items |-> <<>>], [kind |-> "other", items |-> <<>>]}
    \cup {[kind |-> "list", items |-> l] : l \in SeqsUpTo(MediaEntries, n)}

DOT_MP3 == <<".", "m", "p", "3">>

IsMp3Entry(m) == m.isdict /\ m.url.isstr /\ InStr(DOT_MP3, Lower(m.url.s))
HasUrl(m) == m.isdict /\ m.url.isstr /\ m.url.s # <<>>

\* index of the first element of items that satisfies P, 0 when none does
FirstIndex(items, P(_)) ==
    IF \E i \in 1..Len(items) : P(items[i])
    THEN CHOOSE i \in 1..Len(items) : P(items[i]) /\ \A k \in 1..(i - 1) : ~P(items[k])
    ELSE 0

\* choose_media without the mp3 loop: the first entry with a url
ChooseMediaFirstWithUrl(medias) ==
    IF medias.kind # "list" \/ medias.items = <<>> THEN None
    ELSE LET any == FirstIndex(medias.items, HasUrl)
         IN IF any # 0 THEN Some(medias.items[any]) ELSE None

\* choose_media whose fallback loop leaves out the test "and m['url']"
ChooseMediaAnyStrUrl(medias) ==
    IF medias.kind # "list" \/ medias.items = <<>> THEN None
    ELSE LET mp3 == FirstIndex(medias.items, IsMp3Entry)
             any == FirstIndex(medias.items, LAMBDA m : m.isdict /\ m.url.isstr)
         IN IF mp3 # 0 THEN Some(medias.items[mp3])
            ELSE IF any # 0 THEN Some(medias.items[any])
            ELSE None

\* choose_media: None, or the chosen entry
ChooseMedia(medias) ==
    IF medias.kind # "list" \/ medias.items = <<>> THEN None
    ELSE LET mp3 == FirstIndex(medias.items, IsMp3Entry)
             any == FirstIndex(medias.items, HasUrl)
         IN IF mp3 # 0 THEN Some(medias.items[mp3])
            ELSE IF any # 0 THEN Some(medias.items[any])
            ELSE None

MediaInit ==
    /\ fn \in [pc : {"call"}, name : {"choose_media"}, input : MediasValues(MaxMedias),
               output : {None}]
    /\ fab = Idle
    /\ svc = Idle
    /\ cli = Idle
    /\ conc = Idle

MediaApply ==
    /\ fn.pc = "call"
    /\ fn.name = "choose_media"
    /\ fn' = [fn EXCEPT !.pc = "done", !.output = ChooseMedia(fn.input)]
    /\ UNCHANGED <<fab, svc, cli, conc>>

MediaNext == MediaApply

SpecMedia == MediaInit /\ [][MediaNext]_vars

SplitExt(p) ==
    LET sepIndex == RFind(p, "/")
        dotIndex == RFind(p, ".")
    IN IF dotIndex > sepIndex
          /\ \E k \in (sepIndex + 1)..(dotIndex - 1) : p[k] # "."
       THEN SubSeq(p, dotIndex, Len(p))
       ELSE <<>>

\* str[i:] cut before the first character of cs
UpTo(str, cs) ==
    LET i == Find(str, cs)
    IN IF i = 0 THEN str ELSE SubSeq(str, 1, i - 1)

\* urlparse(url).path for URLs without ";": drop "scheme:", then
\* "//netloc", then the fragment and the query
UrlPath(url) ==
    LET colon == Find(url, {":"})
        hasScheme == /\ colon > 1
                     /\ url[1] \in Letters
                     /\ \A k \in 1..(colon - 1) : url[k] \in Letters \cup Digits \cup {"+", "-", "."}
        rest1 == IF hasScheme THEN SubSeq(url, colon + 1, Len(url)) ELSE url
        rest2 == IF StartsWith(rest1, <<"/", "/">>)
                 THEN LET after == SubSeq(rest1, 3, Len(rest1))
                          stop == Find(after, {"/", "?", "#"})
                      IN IF stop = 0 THEN <<>> ELSE SubSeq(after, stop, Len(after))
                 ELSE rest1
    IN UpTo(UpTo(rest2, {"#"}), {"?"})

\* ct_map, in the order of the dict literal
CT_MAP ==
    <<[k |-> <<"a", "u", "d", "i", "o", "/", "m", "p", "e", "g">>,
        v |-> <<".", "m", "p", "3">>],
       [k |-> <<"a", "u", "d", "i", "o", "/", "m", "p", "3">>,
        v |-> <<".", "m", "p", "3">>],
       [k |-> <<"a", "u", "d", "i", "o", "/", "a", "a", "c">>,
        v |-> <<".", "a", "a", "c">>],
       [k |-> <<"a", "u", "d", "i", "o", "/", "m", "4", "a">>,
        v |-> <<".", "m", "4", "a">>],
       [k |-> <<"a", "u", "d", "i", "o", "/", "x", "-", "m", "4", "a">>,
        v |-> <<".", "m", "4", "a">>],
       [k |-> <<"a", "u", "d", "i", "o", "/", "o", "g", "g">>,
        v |-> <<".", "o", "g", "g">>],
       [k |-> <<"a", "u", "d", "i", "o", "/", "o", "p", "u", "s">>,
        v |-> <<".", "o", "p", "u", "s">>],
       [k |-> <<"a", "u", "d", "i", "o", "/", "w", "e", "b", "m">>,
        v |-> <<".", "w", "e", "b", "m">>]>>

FILENAME_EQ == <<"f", "i", "l", "e", "n", "a", "m", "e", "=", "\"">>

\* re.search(r'filename="([^"]+)"', cd): the group of the leftmost match,
\* None when nothing matches
DispositionFilename(cd) ==
    LET Group(i) ==
            LET tail == SubSeq(cd, i + Len(FILENAME_EQ), Len(cd))
                q == Find(tail, {"\""})
            IN IF q > 1 THEN SubSeq(tail, 1, q - 1) ELSE <<>>
        Matches(i) == StartsWithAt(cd, i, FILENAME_EQ) /\ Group(i) # <<>>
    IN IF \E i \in 1..Len(cd) : Matches(i)
       THEN Some(Group(CHOOSE i \in 1..Len(cd) :
                         Matches(i) /\ \A k \in 1..(i - 1) : ~Matches(k)))
       ELSE None

OrEmpty(o) == IF IsNone(o) THEN <<>> ELSE Val(o)

DEFAULT_EXT == <<".", "m", "p", "3">>

\* the extension each source yields, None when it yields nothing
ForcedSource(forced_ext) ==
    IF IsNone(forced_ext) \/ Val(forced_ext) = <<>> THEN None
    ELSE IF StartsWith(Val(forced_ext), <<".">>) THEN forced_ext
    ELSE Some(<<".">> \o Val(forced_ext))

ContentTypeSource(headers) ==
    LET ct == Lower(OrEmpty(headers.ct))
        hit == FirstIndex(CT_MAP, LAMBDA e : InStr(e.k, ct))
    IN IF hit # 0 THEN Some(CT_MAP[hit].v) ELSE None

DispositionSource(headers) ==
    LET m == DispositionFilename(OrEmpty(headers.cd))
    IN IF ~IsNone(m) /\ SplitExt(Val(m)) # <<>> THEN Some(SplitExt(Val(m))) ELSE None

UrlSource(media_url) ==
    LET path_ext == SplitExt(UrlPath(media_url))
    IN IF path_ext # <<>> THEN Some(path_ext) ELSE None

\* pick_extension_from_headers_and_url with the Content-Type table consulted
\* before the forced extension
PickExtensionHeadersFirst(headers, media_url, forced_ext) ==
    IF ~IsNone(ContentTypeSource(headers)) THEN Val(ContentTypeSource(headers))
    ELSE IF ~IsNone(ForcedSource(forced_ext)) THEN Val(ForcedSource(forced_ext))
    ELSE IF ~IsNone(DispositionSource(headers)) THEN Val(DispositionSource(headers))
    ELSE IF ~IsNone(UrlSource(media_url)) THEN Val(UrlSource(media_url))
    ELSE DEFAULT_EXT

\* pick_extension_from_headers_and_url: the returns in the code's order
PickExtension(headers, media_url, forced_ext) ==
    IF ~IsNone(ForcedSource(forced_ext)) THEN Val(ForcedSource(forced_ext))
    ELSE IF ~IsNone(ContentTypeSource(headers)) THEN Val(ContentTypeSource(headers))
    ELSE IF ~IsNone(DispositionSource(headers)) THEN Val(DispositionSource(headers))
    ELSE IF ~IsNone(UrlSource(media_url)) THEN Val(UrlSource(media_url))
    ELSE DEFAULT_EXT

\* line 207: out_path_base if it ends with ext, else out_path_base + ext
OutPath(out_path_base, ext) ==
    IF EndsWith(out_path_base, ext) THEN out_path_base ELSE out_path_base \o ext

\* Content-Type values of the download response
ContentTypes ==
    {None,
     Some(<<"a", "u", "d", "i", "o", "/", "m", "4", "a">>),
     Some(<<"A", "u", "d", "i", "o", "/", "M", "P", "E", "G">>),
     Some(<<"a", "u", "d", "i", "o", "/", "x", "-", "m", "4", "a">>),
     Some(<<"a", "u", "d", "i", "o", "/", "o", "g", "g", ";", " ", "q">>),
     Some(<<"t", "e", "x", "t", "/", "h", "t", "m", "l">>)}

\* Content-Disposition values of the download response
ContentDispositions ==
    {None,
     Some(<<"a", "t", "t", "a", "c", "h", "m", "e", "n", "t">>),
     Some(<<"f", "i", "l", "e", "n", "a", "m", "e", "=", "\"", "a", ".", "a", "a", "c", "\"">>),
     Some(<<"f", "i", "l", "e", "n", "a", "m", "e", "=", "a", ".", "a", "a", "c">>),
     Some(<<"f", "i", "l", "e", "n", "a", "m", "e", "=", "\"", "n", "o", "e", "x", "t", "\"">>),
     Some(<<"f", "i", "l", "e", "n", "a", "m", "e", "=", "\"", "\"", ";", " ", "f", "i", "l", "e", "n", "a", "m", "e", "=", "\"", "b", ".", "o", "p", "u", "s", "\"">>)}

ResponseHeaders == [ct : ContentTypes, cd : ContentDispositions]
NoHeaders == [ct |-> None, cd |-> None]

\* the GET of the media URL: an exception from the transport or from
\* raise_for_status, or a response with its headers
DownloadResponses ==
    [kind : {"neterr", "httperr"}, headers : {NoHeaders}]
    \cup [kind : {"ok"}, headers : ResponseHeaders]

URL_ABSOLUTE == <<"h", ":", "/", "/", "x", ".", "m", "4", "a", "/", "e", ".", "w", "e", "b", "m", "#", "f", ".", "o", "g", "g">>
URL_DOT_DIR == <<"/", "f", ".", "d", "/", "g", "?", "n", "=", "h", ".", "a", "a", "c">>

DownloadUrls == {URL_M4A, URL_MP3, URL_MP3_UPPER, URL_PLAIN, URL_ABSOLUTE, URL_DOT_DIR}

OutPathBases ==
    {<<"/", "w", "/", "s">>,
     <<"/", "w", "/", "s", ".", "m", "4", "a">>,
     <<"/", "w", "/", "s", ".", "f", "l", "a", "c">>}

ForcedExts ==
    {None,
     Some(<<>>),
     Some(<<"f", "l", "a", "c">>),
     Some(<<".", "w", "a", "v">>)}

\* stream_download: the exception, or the extension and the path written
StreamDownload(resp, url, out_path_base, forced_ext) ==
    IF resp.kind = "neterr"
    THEN [raised |-> TRUE, exc |-> "RequestException", ext |-> <<>>, out_path |-> <<>>]
    ELSE IF resp.kind = "httperr"
    THEN [raised |-> TRUE, exc |-> "HTTPError", ext |-> <<>>, out_path |-> <<>>]
    ELSE LET ext == PickExtension(resp.headers, url, forced_ext)
         IN [raised |-> FALSE, exc |-> "", ext |-> ext,
             out_path |-> OutPath(out_path_base, ext)]

ExtInit ==
    /\ fn \in [pc : {"call"}, name : {"stream_download"},
               input : [url : DownloadUrls, out_path_base : OutPathBases,
                        forced_ext : ForcedExts],
               resp : {[kind |-> "none", headers |-> NoHeaders]},
               output : {[raised |-> FALSE, exc |-> "", ext |-> <<>>, out_path |-> <<>>]}]
    /\ fab = Idle
    /\ svc = Idle
    /\ cli = Idle
    /\ conc = Idle

\* the whole of stream_download: the GET, the extension, the file
ExtApply ==
    /\ fn.pc = "call"
    /\ fn.name = "stream_download"
    /\ \E resp \in DownloadResponses :
         fn' = [fn EXCEPT !.pc = "done", !.resp = resp,
                          !.output = StreamDownload(resp, fn.input.url,
                                                    fn.input.out_path_base,
                                                    fn.input.forced_ext)]
    /\ UNCHANGED <<fab, svc, cli, conc>>

ExtNext == ExtApply

SpecExt == ExtInit /\ [][ExtNext]_vars

Downloaded == fn.pc = "done" /\ fn.name = "stream_download" /\ ~fn.output.raised


\* C7: the extension is the forced one (with a leading dot) when one is
\* given, else the Content-Type table's, else the Content-Disposition
\* filename's, else the URL path's, else ".mp3"; a lower source is used
\* only when every higher one yields nothing.  Content-Type audio/m4a
\* without a forced extension gives ".m4a", a forced "flac" gives ".flac"
\* whatever the headers, and the path written ends with the extension.
C7_ExtensionPriority ==
    Downloaded =>
        LET h == fn.resp.headers
            ext == fn.output.ext
            forced == ForcedSource(fn.input.forced_ext)
            ct == ContentTypeSource(h)
            cd == DispositionSource(h)
            url == UrlSource(fn.input.url)
        IN /\ ~IsNone(forced) => ext = Val(forced)
           /\ (IsNone(forced) /\ ~IsNone(ct)) => ext = Val(ct)
           /\ (IsNone(forced) /\ IsNone(ct) /\ ~IsNone(cd)) => ext = Val(cd)
           /\ (IsNone(forced) /\ IsNone(ct) /\ IsNone(cd) /\ ~IsNone(url)) => ext = Val(url)
           /\ (IsNone(forced) /\ IsNone(ct) /\ IsNone(cd) /\ IsNone(url)) => ext = DEFAULT_EXT
           /\ fn.input.forced_ext = Some(<<"f", "l", "a", "c">>)
                => ext = <<".", "f", "l", "a", "c">>
           /\ (fn.input.forced_ext \in {None, Some(<<>>)}
               /\ h.ct = Some(<<"a", "u", "d", "i", "o", "/", "m", "4", "a">>))
                => ext = <<".", "m", "4", "a">>
           /\ EndsWith(fn.output.out_path, ext)
           /\ fn.output.out_path \in {fn.input.out_path_base, fn.input.out_path_base \o ext}

C7_Witness ==
    /\ Downloaded
    /\ fn.input.forced_ext = Some(<<"f", "l", "a", "c">>)
    /\ fn.resp.headers.ct = Some(<<"a", "u", "d", "i", "o", "/", "m", "4", "a">>)
    /\ ~IsNone(DispositionSource(fn.resp.headers))
    /\ fn.output.out_path = <<"/", "w", "/", "s", ".", "m", "4", "a", ".", "f", "l", "a", "c">>

(***************************************************************************)
(* sanitize_filename  (src/spotify_dl_v3.py and src/fabdl_downloader.py)   *)
(***************************************************************************)

MaxNameLen == 3

\* \s and str.strip's whitespace; \w
IsSpaceChar(c) == c \in {" ", "\t"}
IsWordChar(c) == c \in Letters \cup Digits \cup {"_"}

RECURSIVE LStrip(_)
LStrip(str) ==
    IF str # <<>> /\ IsSpaceChar(Head(str)) THEN LStrip(Tail(str)) ELSE str

RECURSIVE RStrip(_)
RStrip(str) ==
    IF str # <<>> /\ IsSpaceChar(str[Len(str)])
    THEN RStrip(SubSeq(str, 1, Len(str) - 1)) ELSE str

\* str.strip()
Strip(str) == RStrip(LStrip(str))

\* re.sub(r"\s+", " ", str): every run of whitespace becomes one space
RECURSIVE CollapseSpaces(_)
CollapseSpaces(str) ==
    IF str = <<>> THEN <<>>
    ELSE IF IsSpaceChar(Head(str))
    THEN <<" ">> \o CollapseSpaces(LStrip(str))
    ELSE <<Head(str)>> \o CollapseSpaces(Tail(str))

\* str.replace(a, b) for single characters
ReplaceChar(str, a, b) == [i \in 1..Len(str) |-> IF str[i] = a THEN b ELSE str[i]]

\* the characters [^\w\s\-\.,\(\)\[\]&] does not match
KeptV3(c) == IsWordChar(c) \/ IsSpaceChar(c) \/ c \in {"-", ".", ",", "(", ")", "[", "]", "&"}
\* the characters [^\w\-\.,\s] does not match
KeptFabdl(c) == IsWordChar(c) \/ IsSpaceChar(c) \/ c \in {"-", ".", ","}

OUTPUT == <<"o", "u", "t", "p", "u", "t">>
DOWNLOAD == <<"d", "o", "w", "n", "l", "o", "a", "d">>

\* sanitize_filename of spotify_dl_v3.py without the strip of line 141
SanitizeV3NoFinalStrip(name) ==
    LET replaced == ReplaceChar(ReplaceChar(Strip(name), "/", "-"), "\\", "-")
        kept == SelectSeq(replaced, KeptV3)
        collapsed == CollapseSpaces(kept)
    IN IF collapsed = <<>> THEN OUTPUT ELSE collapsed

\* sanitize_filename of spotify_dl_v3.py
SanitizeV3(name) ==
    LET replaced == ReplaceChar(ReplaceChar(Strip(name), "/", "-"), "\\", "-")
        kept == SelectSeq(replaced, KeptV3)
        collapsed == Strip(CollapseSpaces(kept))
    IN IF collapsed = <<>> THEN OUTPUT ELSE collapsed

\* sanitize_filename of fabdl_downloader.py
SanitizeFabdl(value) ==
    LET collapsed == CollapseSpaces(Strip(value))
        kept == SelectSeq(collapsed, KeptFabdl)
        joined == ReplaceChar(kept, " ", "_")
    IN IF joined = <<>> THEN DOWNLOAD ELSE joined

\* characters of the names handed to the sanitisers
NameChars == {"a", " ", "\t", "/", "\\", ":", "?", "|", "(", "_"}

SPEC_EXAMPLE == <<"A", "r", "t", "i", "s", "t", "/", "N", "a", "m", "e", ":", " ", "S", "o", "n", "g", "?">>

Names == SeqsUpTo(NameChars, MaxNameLen) \cup {SPEC_EXAMPLE}

SanInit ==
    /\ fn \in [pc : {"call"}, name : {"sanitize_filename_v3", "sanitize_filename_fabdl"},
               input : Names, output : {<<>>}, again : {<<>>}]
    /\ fab = Idle
    /\ svc = Idle
    /\ cli = Idle
    /\ conc = Idle

\* sanitize_filename of spotify_dl_v3.py, applied to the input and then to
\* its own result
SanApplyV3 ==
    /\ fn.pc = "call"
    /\ fn.name = "sanitize_filename_v3"
    /\ fn' = [fn EXCEPT !.pc = "done", !.output = SanitizeV3(fn.input),
                        !.again = SanitizeV3(SanitizeV3(fn.input))]
    /\ UNCHANGED <<fab, svc, cli, conc>>

\* sanitize_filename of fabdl_downloader.py, applied to the input and then
\* to its own result
SanApplyFabdl ==
    /\ fn.pc = "call"
    /\ fn.name = "sanitize_filename_fabdl"
    /\ fn' = [fn EXCEPT !.pc = "done", !.output = SanitizeFabdl(fn.input),
                        !.again = SanitizeFabdl(SanitizeFabdl(fn.input))]
    /\ UNCHANGED <<fab, svc, cli, conc>>

SanNext == SanApplyV3 \/ SanApplyFabdl

SpecSan == SanInit /\ [][SanNext]_vars

HostileChars == {"/", "\\", ":", "?", "*", "\"", "<", ">", "|"}

\* C8: for every input, the empty, the blank and the all-hostile ones
\* included, either sanitize_filename gives a non-empty name without "/",
\* "\" and without : ? * " < > |, and sanitising the result again changes
\* nothing.
C8_SanitizeSafeAndStable ==
    (fn.pc = "done" /\ fn.name \in {"sanitize_filename_v3", "sanitize_filename_fabdl"})
    => /\ fn.output # <<>>
       /\ \A i \in 1..Len(fn.output) : fn.output[i] \notin HostileChars
       /\ fn.again = fn.output

C8_Witness ==
    /\ fn.pc = "done"
    /\ fn.name = "sanitize_filename_v3"
    /\ fn.input = SPEC_EXAMPLE
    /\ fn.output = <<"A", "r", "t", "i", "s", "t", "-", "N", "a", "m", "e", " ", "S", "o", "n", "g">>
    /\ fn.again = fn.output


(***************************************************************************)
(* The command line flow  (src/spotify_dl_v3.py, main and __main__)        *)
(***************************************************************************)

CliMaxMedias == 2

\* the media entries of the payloads the flow receives
CliMediaEntries ==
    {[isdict |-> FALSE, url |-> NonStrUrl],
     [isdict |-> TRUE, url |-> NonStrUrl],
     [isdict |-> TRUE, url |-> StrUrl(<<>>)],
     [isdict |-> TRUE, url |-> StrUrl(URL_M4A)],
     [isdict |-> TRUE, url |-> StrUrl(URL_MP3_UPPER)]}

CliMediasValues ==
    {[kind |-> "absent", items |-> <<>>], [kind |-> "other", items |-> <<>>]}
    \cup {[kind |-> "list", items |-> l] : l \in SeqsUpTo(CliMediaEntries, CliMaxMedias)}

AbsentMedias == [kind |-> "absent", items |-> <<>>]

TITLE_T == <<"T">>
UNKNOWN_TITLE == <<"U", "n", "k", "n", "o", "w", "n", " ", "T", "i", "t", "l", "e">>
UNKNOWN_ARTIST == <<"U", "n", "k", "n", "o", "w", "n", " ", "A", "r", "t", "i", "s", "t">>

\* the object under "data" or "result"
InnerPayloads == [medias : CliMediasValues, title : {None, Some(TITLE_T)}]
NoInner == [medias |-> AbsentMedias, title |-> None]

\* JSON objects answered by the info endpoint: flat, or nested one level
\* under "data" or under "result"
InfoPayloads ==
    [medias : CliMediasValues, title : {Some(TITLE_T)}, data : {None}, result : {None}]
    \cup [medias : {AbsentMedias}, title : {None},
          data : {Some(i) : i \in InnerPayloads}, result : {None}]
    \cup [medias : {AbsentMedias}, title : {None},
          data : {None}, result : {Some(i) : i \in InnerPayloads}]

\* lines 311-315: step into "data", else into "result", when it is a dict
\* with one of the keys medias, title, author, artists
Unwrap(data) ==
    LET Recognised(o) == ~IsNone(o) /\ (Val(o).medias.kind # "absent" \/ ~IsNone(Val(o).title))
    IN IF Recognised(data.data) THEN Val(data.data)
       ELSE IF Recognised(data.result) THEN Val(data.result)
       ELSE [medias |-> data.medias, title |-> data.title]

RECURSIVE SplitOn(_, _)
\* str.split(c)
SplitOn(str, c) ==
    LET i == Find(str, {c})
    IN IF i = 0 THEN <<str>>
       ELSE <<SubSeq(str, 1, i - 1)>> \o SplitOn(SubSeq(str, i + 1, Len(str)), c)

\* urlparse(url).query for URLs without ";"
UrlQuery(url) ==
    LET nofrag == UpTo(url, {"#"})
        q == Find(nofrag, {"?"})
    IN IF q = 0 THEN <<>> ELSE SubSeq(nofrag, q + 1, Len(nofrag))

\* parse_qs(query).get(key, [fallback])[0]: the value of the first field
\* key=value with a non-blank value
QueryValue(query, key, fallback) ==
    LET fields == SplitOn(query, "&")
        IsField(f) == LET e == Find(f, {"="})
                      IN e > 0 /\ SubSeq(f, 1, e - 1) = key /\ Len(f) > e
        hit == FirstIndex(fields, IsField)
    IN IF hit = 0 THEN fallback
       ELSE SubSeq(fields[hit], Find(fields[hit], {"="}) + 1, Len(fields[hit]))

\* infer_tags_from_query
InferTags(media_url, fallback_title, fallback_artist) ==
    [title |-> QueryValue(UrlQuery(media_url), <<"n", "a", "m", "e">>, fallback_title),
     artist |-> QueryValue(UrlQuery(media_url), <<"a", "r", "t", "i", "s", "t">>, fallback_artist)]

CWD == <<"/", "w">>

\* os.path.abspath of a relative name without "/", "." or ".." components
AbsPath(name) == CWD \o <<"/">> \o name

\* lines 333-338: the output base
OutBaseAbs(out_choice, tags) ==
    AbsPath(IF ~IsNone(out_choice) /\ Val(out_choice) # <<>> THEN Val(out_choice)
            ELSE SanitizeV3(tags.artist \o <<" ", "-", " ">> \o tags.title))

\* what the user types at the first prompt, by what resolve_track_url makes
\* of it: a ValueError ("invalid"), or the canonical track URL ("track")
RawUrlKinds == {"invalid", "track"}

\* the body of the info response:
\*   json     resp.json() gives the object
\*   embedded not JSON, but the text from the first "{" to the last "}" is
\*            the object
\*   garbage  not JSON, the text between the braces is not JSON either
\*   nobrace  not JSON, no braces: {"raw": text}
\*   nondict  JSON that is not an object
InfoBodyKinds == {"json", "embedded", "garbage", "nobrace", "nondict"}

CliInit ==
    /\ cli = [pc |-> "ask", track_url |-> None, out_choice |-> None, forced_ext |-> None,
              nonce |-> None, code |-> 0, isdict |-> FALSE, payload |-> NoInner,
              media |-> None, log |-> <<>>, exit |-> None, stderr |-> "",
              out_path |-> <<>>]
    /\ fab = Idle
    /\ svc = Idle
    /\ fn = Idle
    /\ conc = Idle

\* the process ends: main returned (0), or __main__ caught an exception
CliExit(c, code, msg) == [c EXCEPT !.pc = "exit", !.exit = Some(code), !.stderr = msg]

\* ask_user_inputs, and main's "if not user_inputs: return"
CliAsk ==
    /\ cli.pc = "ask"
    /\ \E raw \in RawUrlKinds, out \in {None, Some(<<"s">>)},
          forced \in {None, Some(<<"f", "l", "a", "c">>)} :
         cli' = IF raw = "invalid"
                THEN CliExit(cli, 0, "ERROR: invalid track URL")
                ELSE [cli EXCEPT !.pc = "discover", !.track_url = Some("track"),
                                 !.out_choice = out, !.forced_ext = forced]
    /\ UNCHANGED <<fab, svc, fn, conc>>

\* fetch_home_and_discover: the GET of the home page, raise_for_status,
\* the nonce found or not
CliDiscover ==
    /\ cli.pc = "discover"
    /\ LET c == [cli EXCEPT !.log = Append(cli.log, "GET home")]
       IN \/ cli' = CliExit(c, 1, "Network error")
          \/ cli' = CliExit(c, 1, "HTTP error")
          \/ \E nonce \in {None, Some("n1")} :
               cli' = [c EXCEPT !.pc = "info", !.nonce = nonce]
    /\ UNCHANGED <<fab, svc, fn, conc>>

\* call_info_api and lines 306-323 of main
CliInfo ==
    /\ cli.pc = "info"
    /\ LET c == [cli EXCEPT !.log = Append(cli.log, "POST info")]
       IN \/ cli' = CliExit(c, 1, "Network error")
          \/ \E code \in {200, 500}, body \in InfoBodyKinds :
               LET got == [c EXCEPT !.code = code]
               IN \/ /\ body = "garbage"
                     /\ cli' = CliExit(got, 1, "Traceback: JSONDecodeError")
                  \/ /\ body = "nondict"
                     /\ cli' = CliExit(got, 0, "ERROR: Unexpected response type")
                  \/ /\ body = "nobrace"
                     /\ cli' = CliExit([got EXCEPT !.isdict = TRUE], 0,
                                       "ERROR: No downloadable media found in response.")
                  \/ /\ body \in {"json", "embedded"}
                     /\ \E data \in InfoPayloads :
                          LET payload == Unwrap(data)
                              media == ChooseMedia(payload.medias)
                              seen == [got EXCEPT !.isdict = TRUE, !.payload = payload,
                                                  !.media = media]
                          IN cli' = IF IsNone(media)
                                    THEN CliExit(seen, 0,
                                           "ERROR: No downloadable media found in response.")
                                    ELSE [seen EXCEPT !.pc = "download"]
    /\ UNCHANGED <<fab, svc, fn, conc>>

\* lines 325-340 of main: the tags, the output base, stream_download
CliDownload ==
    /\ cli.pc = "download"
    /\ \E resp \in DownloadResponses :
         LET media_url == Val(cli.media).url.s
             title == IF ~IsNone(cli.payload.title) /\ Val(cli.payload.title) # <<>>
                      THEN Val(cli.payload.title) ELSE UNKNOWN_TITLE
             tags == InferTags(media_url, title, UNKNOWN_ARTIST)
             base == OutBaseAbs(cli.out_choice, tags)
             dl == StreamDownload(resp, media_url, base, cli.forced_ext)
             c == [cli EXCEPT !.log = Append(cli.log, "GET media")]
         IN cli' = IF dl.raised
                   THEN CliExit(c, 1, IF dl.exc = "HTTPError" THEN "HTTP error"
                                      ELSE "Network error")
                   ELSE CliExit([c EXCEPT !.out_path = dl.out_path], 0, "")
    /\ UNCHANGED <<fab, svc, fn, conc>>

\* __main__: a KeyboardInterrupt while main runs ends the process with 130
CliInterrupt ==
    /\ cli.pc # "exit"
    /\ cli' = CliExit(cli, 130, "Aborted.")
    /\ UNCHANGED <<fab, svc, fn, conc>>

CliNext == CliAsk \/ CliDiscover \/ CliInfo \/ CliDownload \/ CliInterrupt

SpecCli == CliInit /\ [][CliNext]_vars

InLog(log, op) == \E i \in 1..Len(log) : log[i] = op

\* the payload at hand has no usable media: medias absent, not a list,
\* empty, or without an entry that has a non-empty str url
NothingToChoose(medias) ==
    \/ medias.kind # "list"
    \/ \A i \in 1..Len(medias.items) : ~HasUrl(medias.items[i])

\* C6: when medias is empty or absent (or has no entry with a non-empty str
\* URL) choose_media gives None and the flow ends without a download
\* request; an entry it returns is an element of medias with a non-empty
\* str URL, and only such an entry's URL is ever downloaded.
C6_NoFabricatedMedia ==
    /\ (cli.isdict /\ NothingToChoose(cli.payload.medias)) =>
         /\ IsNone(cli.media)
         /\ cli.pc = "exit"
         /\ ~InLog(cli.log, "GET media")
    /\ ~IsNone(cli.media) =>
         /\ cli.payload.medias.kind = "list"
         /\ \E i \in 1..Len(cli.payload.medias.items) :
              cli.payload.medias.items[i] = Val(cli.media)
         /\ HasUrl(Val(cli.media))
    /\ InLog(cli.log, "GET media") => ~IsNone(cli.media)

C6_Witness ==
    /\ cli.pc = "exit"
    /\ cli.isdict
    /\ cli.payload.medias.kind = "list"
    /\ Len(cli.payload.medias.items) = 2
    /\ cli.payload.medias.items[2] = [isdict |-> TRUE, url |-> StrUrl(<<>>)]
    /\ IsNone(cli.media)
    /\ cli.log = <<"GET home", "POST info">>


(***************************************************************************)
(* Claims about the two routes of the service                              *)
(***************************************************************************)

NoUrlGiven == IsNone(svc.url) \/ Val(svc.url) = <<>>

\* C11: GET / always answers 200 with HTML: the form when no url is given,
\* else the player page when the resolution returned a record, and for every
\* failure of the resolution (HTTPException or any other exception) the
\* inline message "Error: <detail>", e.g. "Error: Invalid Spotify URL";
\* never an error status.
C11_RootAlwaysOkHtml ==
    (svc.handler = "read_root" /\ svc.pc = "done") =>
        /\ svc.resp.status = 200
        /\ svc.resp.kind \in {"form", "player", "error_html"}
        /\ NoUrlGiven <=> svc.resp.kind = "form"
        /\ svc.result.kind = "return" <=> svc.resp.kind = "player"
        /\ svc.result.kind \in {"HTTPException", "Exception"} <=> svc.resp.kind = "error_html"
        /\ svc.resp.kind = "error_html" => svc.resp.detail = svc.result.detail
        /\ (~NoUrlGiven /\ ~Contains(Val(svc.url), SPOTIFY_TRACK)) =>
             /\ svc.resp.kind = "error_html"
             /\ svc.resp.detail = "Invalid Spotify URL"

C11_Witness ==
    /\ svc.handler = "read_root"
    /\ svc.pc = "done"
    /\ svc.result.kind = "HTTPException"
    /\ svc.result.status = 404
    /\ svc.resp.status = 200
    /\ svc.resp.kind = "error_html"
    /\ svc.resp.detail = "No media found for this track"


\* C12: GET /info answers either 200 with the record {title, artist,
\* thumbnail, media_url} or an error status with a JSON error detail: 400
\* for an invalid URL, 404 when no media URL was resolved, 500 when an
\* upstream call failed at any step (CSRF page, track data, conversion,
\* task polling, a malformed upstream payload); no failure is left as an
\* exception that is not an HTTPException.
C12_InfoStatusMapping ==
    (svc.handler = "get_track_info" /\ svc.pc = "done") =>
        /\ svc.resp.kind \in {"json", "json_error"}
        /\ svc.resp.kind = "json" => svc.resp.status = 200
        /\ svc.resp.kind = "json_error" => svc.resp.status \in {400, 404, 500}
        /\ ~Contains(Val(svc.url), SPOTIFY_TRACK) => svc.resp.status = 400
        /\ svc.pollEnd = "raised" =>
             svc.resp.kind = "json_error" /\ svc.resp.status = 500


\* the request at position i of a resolution
StepOp(i) ==
    CASE i = 1 -> "GET home"
      [] i = 2 -> "POST getTrackData"
      [] i = 3 -> "POST convert"
      [] OTHER -> "GET task"

\* the number of requests made when the resolution ended with this failure
RequestsBefore(detail) ==
    CASE detail = "Invalid Spotify URL" -> 0
      [] detail = "Failed to fetch CSRF token" -> 1
      [] detail = "Failed to fetch track info" -> 2
      [] detail = "Only Spotify track URLs are supported" -> 2
      [] detail = "Failed to start conversion" -> 3
      [] OTHER -> -1

\* C15: a resolution is sequential and gives up at the first failure: an
\* invalid URL causes no request; the requests are, in this order, the CSRF
\* page, getTrackData, convert and the task polls, each made only after the
\* earlier steps succeeded, all on the one session of the call and the POSTs
\* with the token found in step one; a failed step is followed by no request
\* and is not repeated (only the poll repeats), and the task is polled only
\* when convert gave no download URL but a task id.
C15_SequentialNoRecovery ==
    /\ \A i \in 1..Len(svc.log) :
         /\ svc.log[i].op = StepOp(i)
         /\ svc.log[i].session = svc.session
         /\ svc.log[i].session = 1
         /\ i \in {2, 3} => svc.log[i].token = svc.csrf_token /\ ~IsNone(svc.csrf_token)
    /\ Len(svc.log) >= 1 => ~NoUrlGiven /\ Contains(Val(svc.url), SPOTIFY_TRACK)
    /\ Len(svc.log) >= 2 => ~IsNone(svc.csrf_token)
    /\ Len(svc.log) >= 3 => svc.track_data # NoTrackData
    /\ Len(svc.log) >= 4 =>
         /\ ~TruthyStr(svc.convert_media)
         /\ TruthyStr(svc.task_id)
         /\ svc.attempts = Len(svc.log) - 3
    /\ Len(svc.log) <= 3 + DefaultMaxAttempts
    /\ (svc.pc = "done" /\ svc.result.kind = "HTTPException"
        /\ RequestsBefore(svc.result.detail) >= 0)
         => Len(svc.log) = RequestsBefore(svc.result.detail)
    /\ svc.pc = "csrf" => Len(svc.log) = 0
    /\ svc.pc = "trackdata" => Len(svc.log) = 1
    /\ svc.pc = "convert" => Len(svc.log) = 2
    /\ svc.pc = "poll" => Len(svc.log) >= 3

C15_Witness ==
    /\ svc.pc = "done"
    /\ svc.result.kind = "HTTPException"
    /\ svc.result.detail = "Failed to start conversion"
    /\ Len(svc.log) = 3
    /\ svc.log[3].token = Some(CsrfTokenOf(1))


(***************************************************************************)
(* Claims about the command line flow                                      *)
(***************************************************************************)

\* C13: the exit code is 0 only after a successful download, 1 on an HTTP
\* or network error and when no media could be resolved, 2 for an invalid
\* track URL, 130 on interrupt.
C13_ExitCodes ==
    cli.pc = "exit" =>
        /\ cli.exit = Some(0) => (InLog(cli.log, "GET media") /\ cli.out_path # <<>>)
        /\ cli.stderr = "ERROR: invalid track URL" => cli.exit = Some(2)
        /\ cli.stderr = "ERROR: No downloadable media found in response." =>
             cli.exit = Some(1)
        /\ cli.stderr \in {"HTTP error", "Network error"} => cli.exit = Some(1)
        /\ cli.stderr = "Aborted." => cli.exit = Some(130)

\* C14: a non-2xx status of the info endpoint is an upstream error: the
\* flow does not go on to choose a media and download it; and a body that
\* is not JSON, whose brace-delimited part is not JSON either, ends in a
\* reported give-up, not in an uncaught parsing exception.
C14_InfoFailureSurfaces ==
    /\ (cli.code # 0 /\ cli.code \notin 200..299) =>
         /\ IsNone(cli.media)
         /\ cli.pc # "download"
         /\ ~InLog(cli.log, "GET media")
    /\ cli.stderr # "Traceback: JSONDecodeError"

(***************************************************************************)
(* Several inbound requests of the service at once.  Both route handlers  *)
(* are plain functions, which the framework runs on worker threads; each   *)
(* request has its own frame, and the session objects live on the heap.    *)
(***************************************************************************)

\* the requests in flight
Requests == {"r1", "r2"}

\* the urls and the upstream's JSON objects of the concurrent runs
ConcUrls ==
    {Some(<<"invalid">>),
     Some(<<"https://", SPOTIFY_TRACK, "4cOdK2wGLETKBW3PvgPWqT">>)}
ConcTrackPayloads ==
    [type : {Some("track"), Some("album")}, name : {Some("N")}, title : {None},
     artists : {Some(<<[name |-> Some("A")]>>)}, album : {None}, data : {None}]
ConcConvertPayloads ==
    [error : {None}, url : {None, Some("m1")}, data : {None},
     task_id : {None, Some("t1")}, taskId : {None}]
ConcTaskPayloads ==
    [error : {None}, url : {None, Some("m1")}, data : {None},
     status : {Some("pending")}]

\* one session object kept by the module and handed to every request
NewSessionShared(sessions, r) ==
    IF sessions = <<>>
    THEN [id |-> 1,
          sessions |-> <<[owner |-> r, users |-> {}, jar |-> {}]>>]
    ELSE [id |-> 1, sessions |-> sessions]

\* requests.Session() in get_track_data_internal: a new object with an
\* empty cookie jar, bound to a local variable of the calling request
NewSession(sessions, r) ==
    [id |-> Len(sessions) + 1,
     sessions |-> Append(sessions, [owner |-> r, users |-> {}, jar |-> {}])]

\* session.get / session.post by request r: the call reads the object's
\* cookie jar and stores the cookies of the response in it
UseSession(sessions, id, r, op) ==
    [sessions EXCEPT ![id].users = @ \cup {r},
                     ![id].jar = @ \cup {[by |-> r, op |-> op]}]

\* conc with the frame of r replaced and the heap as given
ConcUpdate(r, frame, sessions) ==
    [frames |-> [conc.frames EXCEPT ![r] = frame], sessions |-> sessions]

ConcInit ==
    /\ conc \in [frames : [Requests -> InitialFrames(ConcUrls)],
                 sessions : {<<>>}]
    /\ fab = Idle
    /\ svc = Idle
    /\ cli = Idle
    /\ fn = Idle

ConcReceive(r) ==
    /\ conc.frames[r].pc = "recv"
    /\ LET new == NewSession(conc.sessions, r)
           frame == ReceiveStep(conc.frames[r], new.id)
       IN conc' = ConcUpdate(r, frame,
                             IF frame.pc = "csrf" THEN new.sessions
                                                  ELSE conc.sessions)
    /\ UNCHANGED <<fab, svc, cli, fn>>

ConcFetchCsrf(r) ==
    /\ conc.frames[r].pc = "csrf"
    /\ \E frame \in FetchCsrfSteps(conc.frames[r]) :
         conc' = ConcUpdate(r, frame,
                            UseSession(conc.sessions, conc.frames[r].session,
                                       r, "GET home"))
    /\ UNCHANGED <<fab, svc, cli, fn>>

ConcGetTrackData(r) ==
    /\ conc.frames[r].pc = "trackdata"
    /\ \E frame \in GetTrackDataSteps(conc.frames[r], ConcTrackPayloads) :
         conc' = ConcUpdate(r, frame,
                            UseSession(conc.sessions, conc.frames[r].session,
                                       r, "POST getTrackData"))
    /\ UNCHANGED <<fab, svc, cli, fn>>

ConcConvert(r) ==
    /\ conc.frames[r].pc = "convert"
    /\ \E frame \in ConvertSteps(conc.frames[r], ConcConvertPayloads) :
         conc' = ConcUpdate(r, frame,
                            UseSession(conc.sessions, conc.frames[r].session,
                                       r, "POST convert"))
    /\ UNCHANGED <<fab, svc, cli, fn>>

ConcPollAttempt(r) ==
    /\ conc.frames[r].pc = "poll"
    /\ conc.frames[r].attempts < DefaultMaxAttempts
    /\ \E frame \in PollAttemptSteps(conc.frames[r], ConcTaskPayloads) :
         conc' = ConcUpdate(r, frame,
                            UseSession(conc.sessions, conc.frames[r].session,
                                       r, "GET task"))
    /\ UNCHANGED <<fab, svc, cli, fn>>

ConcPollExhausted(r) ==
    /\ conc.frames[r].pc = "poll"
    /\ conc.frames[r].attempts >= DefaultMaxAttempts
    /\ conc' = ConcUpdate(r, PollExhaustedStep(conc.frames[r]), conc.sessions)
    /\ UNCHANGED <<fab, svc, cli, fn>>

ConcNext ==
    \E r \in Requests :
        \/ ConcReceive(r)
        \/ ConcFetchCsrf(r)
        \/ ConcGetTrackData(r)
        \/ ConcConvert(r)
        \/ ConcPollAttempt(r)
        \/ ConcPollExhausted(r)

SpecConc == ConcInit /\ [][ConcNext]_vars

\* every session object is used, and its cookie jar written, by the request
\* that created it only; every request of r went out on r's own session with
\* the token discovered on that session; no two requests hold one session
SessionsIsolated ==
    /\ \A id \in 1..Len(conc.sessions) :
         /\ conc.sessions[id].users \subseteq {conc.sessions[id].owner}
         /\ \A c \in conc.sessions[id].jar : c.by = conc.sessions[id].owner
    /\ \A r \in Requests :
         LET f == conc.frames[r]
         IN /\ f.session # 0 =>
                 /\ f.session \in 1..Len(conc.sessions)
                 /\ conc.sessions[f.session].owner = r
                 /\ \A q \in Requests \ {r} : conc.frames[q].session # f.session
            /\ ~IsNone(f.csrf_token) => Val(f.csrf_token) = CsrfTokenOf(f.session)
            /\ \A i \in 1..Len(f.log) :
                 /\ f.log[i].session = f.session
                 /\ ~IsNone(f.log[i].token) =>
                        /\ f.log[i].token = f.csrf_token
                        /\ \A q \in Requests \ {r} :
                             f.log[i].token # conc.frames[q].csrf_token

\* the successors of a frame in a resolution that runs alone
AloneSteps(f, session) ==
    IF f.pc = "recv" THEN {ReceiveStep(f, session)}
    ELSE IF f.pc = "csrf" THEN FetchCsrfSteps(f)
    ELSE IF f.pc = "trackdata" THEN GetTrackDataSteps(f, ConcTrackPayloads)
    ELSE IF f.pc = "convert" THEN ConvertSteps(f, ConcConvertPayloads)
    ELSE IF f.pc = "poll" /\ f.attempts < DefaultMaxAttempts
         THEN PollAttemptSteps(f, ConcTaskPayloads)
    ELSE IF f.pc = "poll" THEN {PollExhaustedStep(f)}
    ELSE {}

\* a step changes one request only: the other frames and the other
\* requests' session objects stay as they are, and the frame that moves
\* takes a step it could take running alone
StepIndependent ==
    \A r \in Requests :
        conc'.frames[r] # conc.frames[r] =>
            /\ \A q \in Requests \ {r} :
                 /\ conc'.frames[q] = conc.frames[q]
                 /\ conc.frames[q].session # 0 =>
                        conc'.sessions[conc.frames[q].session]
                            = conc.sessions[conc.frames[q].session]
            /\ conc'.frames[r] \in AloneSteps(conc.frames[r], conc'.frames[r].session)

\* C16: under every interleaving of concurrent requests each resolution uses
\* the session it created itself: no session, cookie jar or CSRF token of one
\* request is used by another, no mutable state is shared, and a step of one
\* resolution neither changes nor depends on another resolution.
C16_SessionPerRequest == []SessionsIsolated /\ [][StepIndependent]_vars

\* both requests are polling at once, each after at least one poll on its
\* own session
C16_Witness ==
    /\ \A r \in Requests :
         /\ conc.frames[r].pc = "poll"
         /\ conc.frames[r].attempts >= 1
         /\ conc.sessions[conc.frames[r].session].users = {r}
    /\ conc.frames["r1"].session # conc.frames["r2"].session

====
